---------------------------- MODULE Spec2Model ----------------------------
(***************************************************************************)
(* A model of src/src/torrent.ts of cross-seed:                            *)
(*   - parseTorrentFromURL       (the remote fetch classifier),            *)
(*   - getTorrentByFuzzyName     (the fuzzy name resolver),                *)
(*   - getTorrentByCriteria      (the criteria locator),                   *)
(*   - indexNewTorrents          (the directory -> index synchronisation). *)
(* Strings whose characters matter (names, keys, search terms) are tuples  *)
(* of one-character strings.  An optional value is a tuple of length 0     *)
(* (undefined) or 1 (the value).                                           *)
(***************************************************************************)
EXTENDS Integers, Sequences, FiniteSets, TLC

VARIABLES
    \* ---- parseTorrentFromURL ----
    snatchTimeout,   \* TRUE iff getRuntimeConfig().snatchTimeout is a number
    pc,              \* position of the call
    timer,           \* the setTimeout of line 53: "none", "armed", "fired"
    aborted,         \* abortController.signal.aborted
    firedAt,         \* the position of the call when the timer fired
    response,        \* the Response fetch resolved with (a tuple of length 0 or 1)
    bodyRead,        \* the body read of the call: "none", "ok" or "error"
    outcome,         \* how the call ended: a Result, or "THROWN" (a rejected promise)
    \* ---- the Index Store ----
    index,           \* the rows of db("torrent"): [name, file_path, info_hash]
    \* ---- getTorrentByFuzzyName ----
    levenshtein,     \* (await getFileConfig()).levenshtein
    fpc,             \* position of the call
    name,            \* the argument (a tuple of length 0 before the call)
    allTorrentNames, \* the rows the query returned (length 0 before the query)
    searchMap,       \* the entries of searchMap in insertion order
    closestMatch,    \* closest(...) (length 0: undefined)
    calcDistanceFrom,
    logged,          \* the logger.verbose of line 267 ran
    parsed,          \* the path given to parseTorrentFromFilename (length 0: none)
    fresult,         \* "null", "Metafile", or the error the promise rejected with
    \* ---- getTorrentByCriteria ----
    cpc,
    criteria,        \* the argument: [infoHash, name], each optional
    findResult,      \* the row .first() returned (length 0: undefined)
    cresult,         \* "Metafile", or the error the promise rejected with
    \* ---- indexNewTorrents ----
    torrentDir,      \* the files of the torrent directory
    ipc,             \* position of the run
    dirContents,     \* the result of findAllTorrentFilesInDir
    pos,             \* the index in dirContents of the file the loop is at
    indexBefore,     \* the index when the run started
    dirChanges       \* the changes of the directory since the run started

fetchVars ==
    <<snatchTimeout, pc, timer, aborted, firedAt, response, bodyRead, outcome>>
fuzzyVars ==
    <<levenshtein, fpc, name, allTorrentNames, searchMap, closestMatch,
      calcDistanceFrom, logged, parsed, fresult>>
criteriaVars == <<cpc, criteria, findResult, cresult>>
indexerVars == <<torrentDir, ipc, dirContents, pos, indexBefore, dirChanges>>

vars == <<fetchVars, index, fuzzyVars, criteriaVars, indexerVars>>

\* The state of a part of the program that no call has used.
FetchIdle ==
    /\ snatchTimeout = FALSE
    /\ pc = "start"
    /\ timer = "none"
    /\ aborted = FALSE
    /\ firedAt = "never"
    /\ response = <<>>
    /\ bodyRead = "none"
    /\ outcome = "none"

FuzzyIdle ==
    /\ fpc = "idle"
    /\ name = <<>>
    /\ allTorrentNames = <<>>
    /\ searchMap = <<>>
    /\ closestMatch = <<>>
    /\ calcDistanceFrom = 0
    /\ logged = FALSE
    /\ parsed = <<>>
    /\ fresult = "none"

CriteriaIdle ==
    /\ cpc = "idle"
    /\ criteria = [infoHash |-> <<>>, name |-> <<>>]
    /\ findResult = <<>>
    /\ cresult = "none"

IndexerIdle ==
    /\ ipc = "idle"
    /\ dirContents = <<>>
    /\ pos = 1
    /\ indexBefore = {}
    /\ dirChanges = 0

-----------------------------------------------------------------------------
(***************************************************************************)
(* parseTorrentFromURL                                                     *)
(***************************************************************************)

SnatchError ==
    {"ABORTED", "RATE_LIMITED", "MAGNET_LINK", "INVALID_CONTENTS", "UNKNOWN_ERROR"}

\* The responses a server may send.  location: the Location header
\* (a tuple of length 0: no such header).  has429: the body text includes
\* "429".  decodes: Metafile.decode accepts the body bytes.
Statuses == {200, 204, 301, 302, 404, 429, 500}
\* "magnet:?xt=1", "https://t/login"
LocationMagnet == <<"m", "a", "g", "n", "e", "t", ":", "?", "x", "t", "=", "1">>
LocationLogin == <<"h", "t", "t", "p", "s", ":", "/", "/", "t", "/", "l", "o", "g", "i", "n">>
MagnetScheme == <<"m", "a", "g", "n", "e", "t", ":">>
Locations == {<<>>, <<LocationMagnet>>, <<LocationLogin>>}
ContentTypes ==
    {<<>>, <<"application/rss+xml">>, <<"application/rss+xml; charset=utf-8">>,
     <<"application/x-bittorrent">>}
Responses ==
    [status : Statuses, location : Locations, contentType : ContentTypes,
     has429 : BOOLEAN, decodes : BOOLEAN]

\* response.status.toString().startsWith("3"), for a three-digit status
StatusStartsWith3(r) == r.status \div 100 = 3

\* response.headers.get("location")?.startsWith("magnet:")
LocationIsMagnet(r) ==
    /\ r.location # <<>>
    /\ Len(r.location[1]) >= Len(MagnetScheme)
    /\ SubSeq(r.location[1], 1, Len(MagnetScheme)) = MagnetScheme

\* response.ok
Ok(r) == r.status >= 200 /\ r.status <= 299

\* response.headers.get("Content-Type") === "application/rss+xml"
IsRssContentType(r) == r.contentType = <<"application/rss+xml">>

\* The if / else-if chain of lines 73-99, up to the first await of the branch
\* taken: the branch either returns at once or goes on to read the body.
Classify(r) ==
    IF StatusStartsWith3(r) /\ LocationIsMagnet(r)
    THEN [pc |-> "done", outcome |-> "MAGNET_LINK"]
    ELSE IF r.status = 429
    THEN [pc |-> "done", outcome |-> "RATE_LIMITED"]
    ELSE IF ~Ok(r)
    THEN [pc |-> "body_notok", outcome |-> "none"]
    ELSE IF IsRssContentType(r)
    THEN [pc |-> "body_rss", outcome |-> "none"]
    ELSE [pc |-> "body_decode", outcome |-> "none"]

\* What the call ends with once the body read of its branch has succeeded.
AfterBody(at, r) ==
    CASE at = "body_notok" -> "UNKNOWN_ERROR"
      [] at = "body_rss" -> IF r.has429 THEN "RATE_LIMITED" ELSE "INVALID_CONTENTS"
      [] at = "body_decode" -> IF r.decodes THEN "Metafile" ELSE "INVALID_CONTENTS"

\* What the call ends with once the body read of its branch has rejected:
\* only the read of line 103 is inside a try.
AfterBodyError(at) ==
    IF at = "body_decode" THEN "INVALID_CONTENTS" ELSE "THROWN"

BodyStates == {"body_notok", "body_rss", "body_decode"}

FetchInit ==
    /\ snatchTimeout \in BOOLEAN
    /\ pc = "start"
    /\ timer = "none"
    /\ aborted = FALSE
    /\ firedAt = "never"
    /\ response = <<>>
    /\ bodyRead = "none"
    /\ outcome = "none"
    /\ index = {} /\ levenshtein = 0 /\ torrentDir = {}
    /\ FuzzyIdle /\ CriteriaIdle /\ IndexerIdle

\* Lines 49-62: the controller, the timer if a timeout is configured, and the
\* request is issued.
Call ==
    /\ pc = "start"
    /\ pc' = "fetching"
    /\ timer' = IF snatchTimeout THEN "armed" ELSE "none"
    /\ UNCHANGED <<snatchTimeout, aborted, firedAt, response, bodyRead, outcome>>
    /\ UNCHANGED <<index, fuzzyVars, criteriaVars, indexerVars>>

\* Line 53: the timer's callback.  Nothing in the function clears the timer,
\* so it stays armed whatever the position of the call.
TimerFire ==
    /\ timer = "armed"
    /\ timer' = "fired"
    /\ aborted' = TRUE
    /\ firedAt' = pc
    /\ UNCHANGED <<snatchTimeout, pc, response, bodyRead, outcome>>
    /\ UNCHANGED <<index, fuzzyVars, criteriaVars, indexerVars>>

\* Line 58 resolves with a response; lines 73-99 run up to the next await.
FetchResolve ==
    /\ pc = "fetching"
    /\ ~aborted
    /\ \E r \in Responses :
        /\ response' = <<r>>
        /\ pc' = Classify(r).pc
        /\ outcome' = Classify(r).outcome
    /\ UNCHANGED <<snatchTimeout, timer, aborted, firedAt, bodyRead>>
    /\ UNCHANGED <<index, fuzzyVars, criteriaVars, indexerVars>>

\* Line 58 rejects with an error that is not an AbortError (lines 68-70).
FetchReject ==
    /\ pc = "fetching"
    /\ ~aborted
    /\ pc' = "done"
    /\ outcome' = "UNKNOWN_ERROR"
    /\ UNCHANGED <<snatchTimeout, timer, aborted, firedAt, response, bodyRead>>
    /\ UNCHANGED <<index, fuzzyVars, criteriaVars, indexerVars>>

\* Line 58 rejects with an AbortError (lines 64-67).
FetchAbort ==
    /\ pc = "fetching"
    /\ aborted
    /\ pc' = "done"
    /\ outcome' = "ABORTED"
    /\ UNCHANGED <<snatchTimeout, timer, aborted, firedAt, response, bodyRead>>
    /\ UNCHANGED <<index, fuzzyVars, criteriaVars, indexerVars>>

\* The body read of line 85, 88 or 103 resolves.
BodyReadOk ==
    /\ pc \in BodyStates
    /\ ~aborted
    /\ pc' = "done"
    /\ bodyRead' = "ok"
    /\ outcome' = AfterBody(pc, response[1])
    /\ UNCHANGED <<snatchTimeout, timer, aborted, firedAt, response>>
    /\ UNCHANGED <<index, fuzzyVars, criteriaVars, indexerVars>>

\* The body read rejects because the connection failed part-way.
BodyReadFail ==
    /\ pc \in BodyStates
    /\ ~aborted
    /\ pc' = "done"
    /\ bodyRead' = "error"
    /\ outcome' = AfterBodyError(pc)
    /\ UNCHANGED <<snatchTimeout, timer, aborted, firedAt, response>>
    /\ UNCHANGED <<index, fuzzyVars, criteriaVars, indexerVars>>

\* The body read rejects with an AbortError: the signal aborted the request
\* while the body was being read.
BodyReadAbort ==
    /\ pc \in BodyStates
    /\ aborted
    /\ pc' = "done"
    /\ bodyRead' = "error"
    /\ outcome' = AfterBodyError(pc)
    /\ UNCHANGED <<snatchTimeout, timer, aborted, firedAt, response>>
    /\ UNCHANGED <<index, fuzzyVars, criteriaVars, indexerVars>>

FetchNext ==
    \/ Call
    \/ TimerFire
    \/ FetchResolve
    \/ FetchReject
    \/ FetchAbort
    \/ BodyReadOk
    \/ BodyReadFail
    \/ BodyReadAbort

SpecFetch == FetchInit /\ [][FetchNext]_vars

-----------------------------------------------------------------------------
(***************************************************************************)
(* Strings as tuples of characters                                         *)
(***************************************************************************)

Digit == {"0", "1", "2", "3", "4", "5", "6", "7", "8", "9"}
UpperCase ==
    <<"A", "B", "C", "D", "E", "F", "G", "H", "I", "J", "K", "L", "M",
      "N", "O", "P", "Q", "R", "S", "T", "U", "V", "W", "X", "Y", "Z">>
LowerCase ==
    <<"a", "b", "c", "d", "e", "f", "g", "h", "i", "j", "k", "l", "m",
      "n", "o", "p", "q", "r", "s", "t", "u", "v", "w", "x", "y", "z">>

\* The characters of the model in the order of their UTF-16 code units, the
\* order Array.prototype.sort() compares strings by.
CharOrder ==
    <<" ", "%", "-", ".">> \o <<"0", "1", "2", "3", "4", "5", "6", "7", "8", "9">>
    \o UpperCase \o <<"_">> \o LowerCase

CodeOf(c) == CHOOSE i \in 1..Len(CharOrder) : CharOrder[i] = c

\* String.prototype.toLowerCase, one character
toLowerCase(c) ==
    IF \E i \in 1..Len(UpperCase) : UpperCase[i] = c
    THEN LowerCase[CHOOSE i \in 1..Len(UpperCase) : UpperCase[i] = c]
    ELSE c

LowerAll(s) == [i \in 1..Len(s) |-> toLowerCase(s[i])]

\* a < b as JavaScript compares strings
RECURSIVE StrLess(_, _)
StrLess(a, b) ==
    IF b = <<>> THEN FALSE
    ELSE IF a = <<>> THEN TRUE
    ELSE IF a[1] # b[1] THEN CodeOf(a[1]) < CodeOf(b[1])
    ELSE StrLess(Tail(a), Tail(b))

EndsWith(s, suffix) ==
    /\ Len(suffix) <= Len(s)
    /\ SubSeq(s, Len(s) - Len(suffix) + 1, Len(s)) = suffix

\* the separators of the regular expression /[.\s-]+/ of line 212
IsSeparator(c) == c \in {".", " ", "-"}

SetMin(S) == CHOOSE x \in S : \A y \in S : x <= y

\* The positions of s where a run of separators starts.
RunStarts(s) ==
    {i \in 1..Len(s) : IsSeparator(s[i]) /\ (i = 1 \/ ~IsSeparator(s[i - 1]))}

\* The position where the run of separators that starts at i ends.
RunEnd(s, i) ==
    SetMin({j \in i..Len(s) : j = Len(s) \/ ~IsSeparator(s[j + 1])})

\* The k-th smallest element of a set of numbers.
Nth(S, k) == CHOOSE i \in S : Cardinality({j \in S : j < i}) = k - 1

\* name.split(/[.\s-]+/): the texts before, between and after the runs of
\* separators, the empty text before a leading and after a trailing run
\* included.
Split(s) ==
    LET runs == RunStarts(s)
        m == Cardinality(runs)
    IN [k \in 1..(m + 1) |->
           SubSeq(s,
                  IF k = 1 THEN 1 ELSE RunEnd(s, Nth(runs, k - 1)) + 1,
                  IF k = m + 1 THEN Len(s) ELSE Nth(runs, k) - 1)]

\* Array.prototype.sort() with the default comparison
RECURSIVE InsertSorted(_, _)
InsertSorted(sorted, t) ==
    IF sorted = <<>> THEN <<t>>
    ELSE IF StrLess(t, sorted[1]) THEN <<t>> \o sorted
    ELSE <<sorted[1]>> \o InsertSorted(Tail(sorted), t)

RECURSIVE Sort(_)
Sort(tokens) ==
    IF tokens = <<>> THEN <<>>
    ELSE InsertSorted(Sort(Tail(tokens)), tokens[1])

\* Array.prototype.join("")
RECURSIVE Join(_)
Join(tokens) ==
    IF tokens = <<>> THEN <<>> ELSE tokens[1] \o Join(Tail(tokens))

\* lines 210-214
tokenizeName(tname) ==
    LET tokens == Split(tname)
    IN Sort([i \in 1..Len(tokens) |-> LowerAll(tokens[i])])

\* line 215
createComparableTorrent(x) == Join(tokenizeName(x))

Min2(a, b) == IF a <= b THEN a ELSE b
Max2(a, b) == IF a >= b THEN a ELSE b

\* One row of the Levenshtein table: prev is the row above, i its number, ai
\* the i-th character of a; cell j is at index j + 1.  Cell j is the least of
\* cell j - 1 plus one, the cell above plus one and the cell above to the left
\* plus the cost of the substitution, that is the least over k <= j of what
\* cell k gets from the row above plus the j - k insertions after it.
LevRow(ai, b, prev, i) ==
    LET fromAbove ==
            <<i>> \o [k \in 1..Len(b) |->
                        Min2(prev[k + 1] + 1,
                             prev[k] + (IF ai = b[k] THEN 0 ELSE 1))]
    IN [j \in 1..(Len(b) + 1) |->
           SetMin({fromAbove[k] + (j - k) : k \in 1..j})] \o <<>>

\* The last cell of the last row; every row is as long as the row above.
RECURSIVE LevRows(_, _, _, _)
LevRows(a, b, i, prev) ==
    IF i > Len(a) THEN prev[Len(b) + 1]
    ELSE LET row == LevRow(a[i], b, prev, i)
         IN CASE Len(row) = Len(prev) -> LevRows(a, b, i + 1, row)

\* distance of fastest-levenshtein: the Levenshtein distance of two strings
distance(a, b) == LevRows(a, b, 1, [j \in 1..(Len(b) + 1) |-> j - 1] \o <<>>)

-----------------------------------------------------------------------------
(***************************************************************************)
(* The names the resolver is asked for and the names the index holds       *)
(***************************************************************************)

\* "Show.S01E02.720p-GRP"
NameShow720 == <<"S", "h", "o", "w", ".", "S", "0", "1", "E", "0", "2", ".", "7", "2", "0", "p", "-", "G", "R", "P">>

\* "Abc.S1E2-GRP"
NameAbc == <<"A", "b", "c", ".", "S", "1", "E", "2", "-", "G", "R", "P">>

\* "Show.S01E02-x_mkv"
NameShowMkv == <<"S", "h", "o", "w", ".", "S", "0", "1", "E", "0", "2", "-", "x", "_", "m", "k", "v">>

\* ""
NameEmpty == <<>>

\* ".- "
NameSeparators == <<".", "-", " ">>

\* "Film.2020-GRP"
NameFilm == <<"F", "i", "l", "m", ".", "2", "0", "2", "0", "-", "G", "R", "P">>

\* "Show.S01-GRP"
NameSeason == <<"S", "h", "o", "w", ".", "S", "0", "1", "-", "G", "R", "P">>

\* n times the character c
Repeat(c, n) == [i \in 1..n |-> c]

\* "Long.S01E02.", 80 times "a", "-GRP": its key has 93 characters
NameLong == <<"L", "o", "n", "g", ".", "S", "0", "1", "E", "0", "2", ".">> \o Repeat("a", 80) \o <<"-", "G", "R", "P">>

\* "Show"
NameNoMarker == <<"S", "h", "o", "w">>

Names ==
    {NameShow720,
     NameAbc,
     NameShowMkv,
     NameEmpty,
     NameSeparators,
     NameFilm,
     NameSeason,
     NameNoMarker,
     NameLong}


\* "Show.S01E02.720p-GRP"
RecShow720 ==
    [name |-> <<"S", "h", "o", "w", ".", "S", "0", "1", "E", "0", "2", ".", "7", "2", "0", "p", "-", "G", "R", "P">>,
     file_path |-> "/torrents/1.torrent", info_hash |-> "hash1"]

\* "show.s01e02.720p-grp"
RecShow720Lower ==
    [name |-> <<"s", "h", "o", "w", ".", "s", "0", "1", "e", "0", "2", ".", "7", "2", "0", "p", "-", "g", "r", "p">>,
     file_path |-> "/torrents/2.torrent", info_hash |-> "hash2"]

\* "Show.S01E02.72p-GRP"
RecShow72 ==
    [name |-> <<"S", "h", "o", "w", ".", "S", "0", "1", "E", "0", "2", ".", "7", "2", "p", "-", "G", "R", "P">>,
     file_path |-> "/torrents/3.torrent", info_hash |-> "hash3"]

\* "Show.S01E02.1080p-GRP"
RecShow1080 ==
    [name |-> <<"S", "h", "o", "w", ".", "S", "0", "1", "E", "0", "2", ".", "1", "0", "8", "0", "p", "-", "G", "R", "P">>,
     file_path |-> "/torrents/4.torrent", info_hash |-> "hash4"]

\* "Abc.S1E2.x-GRP"
RecAbcX ==
    [name |-> <<"A", "b", "c", ".", "S", "1", "E", "2", ".", "x", "-", "G", "R", "P">>,
     file_path |-> "/torrents/5.torrent", info_hash |-> "hash5"]

\* "Abc.S1E2.xy-GRP"
RecAbcXy ==
    [name |-> <<"A", "b", "c", ".", "S", "1", "E", "2", ".", "x", "y", "-", "G", "R", "P">>,
     file_path |-> "/torrents/6.torrent", info_hash |-> "hash6"]

\* "Show.S01E02.x.mkv"
RecShowMkv ==
    [name |-> <<"S", "h", "o", "w", ".", "S", "0", "1", "E", "0", "2", ".", "x", ".", "m", "k", "v">>,
     file_path |-> "/torrents/7.torrent", info_hash |-> "hash7"]

\* "Film.2020.x-GRP"
RecFilm ==
    [name |-> <<"F", "i", "l", "m", ".", "2", "0", "2", "0", ".", "x", "-", "G", "R", "P">>,
     file_path |-> "/torrents/8.torrent", info_hash |-> "hash8"]

\* "Long.S01E02.", 72 times "a", "-GRP": at distance 8 from the key of NameLong
RecLong72 ==
    [name |-> <<"L", "o", "n", "g", ".", "S", "0", "1", "E", "0", "2", ".">> \o Repeat("a", 72) \o <<"-", "G", "R", "P">>,
     file_path |-> "/torrents/9.torrent", info_hash |-> "hash9"]

\* "Long.S01E02.", 71 times "a", "-GRP": at distance 9 from the key of NameLong
RecLong71 ==
    [name |-> <<"L", "o", "n", "g", ".", "S", "0", "1", "E", "0", "2", ".">> \o Repeat("a", 71) \o <<"-", "G", "R", "P">>,
     file_path |-> "/torrents/10.torrent", info_hash |-> "hash10"]

RecordPool ==
    {RecShow720,
     RecShow720Lower,
     RecShow72,
     RecShow1080,
     RecAbcX,
     RecAbcXy,
     RecShowMkv,
     RecFilm,
     RecLong72,
     RecLong71}

-----------------------------------------------------------------------------
(***************************************************************************)
(* getTorrentByFuzzyName                                                   *)
(***************************************************************************)

\* [...VIDEO_EXTENSIONS, ...DATA_EXTENSIONS] of constants.js
extensionsToRemove ==
    {<<".", "m", "k", "v">>, <<".", "m", "p", "4">>, <<".", "a", "v", "i">>}

\* The value the callback of line 219 returns for one extension.
StripExtension(n, extension) ==
    IF EndsWith(n, extension) THEN SubSeq(n, 1, Len(n) - Len(extension)) ELSE n

\* Lines 217-227.  forEach discards what its callback returns and the
\* callback assigns nothing, so line 226 returns the argument.
removeExtensionsFromName(n) ==
    LET discarded == {StripExtension(n, extension) : extension \in extensionsToRemove}
    IN n

\* The function f restricted to the non-empty set S, as an explicit table.
RECURSIVE Tabulate(_, _)
Tabulate(f, S) ==
    LET x == CHOOSE y \in S : TRUE
    IN IF S = {x} THEN x :> f[x] ELSE (x :> f[x]) @@ Tabulate(f, S \ {x})

\* createComparableTorrent, the candidate key of line 252 and distance over the
\* names of the model, each computed once.
comparableOf == Tabulate([n \in Names |-> createComparableTorrent(n)], Names)
candidateKeyOf ==
    Tabulate([n \in {r.name : r \in RecordPool} |->
                 createComparableTorrent(removeExtensionsFromName(n))],
             {r.name : r \in RecordPool})
KeyPairs ==
    {comparableOf[n] : n \in Names} \X {candidateKeyOf[r.name] : r \in RecordPool}
distanceOf == Tabulate([p \in KeyPairs |-> distance(p[1], p[2])], KeyPairs)

Distance(a, b) == distanceOf[<<a, b>>]

\* closest of fastest-levenshtein: the first element of arr at the least
\* distance from str; undefined (a tuple of length 0) when arr is empty.
closest(str, arr) ==
    IF arr = <<>> THEN <<>>
    ELSE LET dist == [i \in 1..Len(arr) |-> Distance(str, arr[i])]
             best == CHOOSE i \in 1..Len(arr) :
                 /\ \A k \in 1..Len(arr) : dist[i] <= dist[k]
                 /\ \A k \in 1..(i - 1) : dist[k] > dist[i]
         IN <<arr[best]>>

IsWordChar(c) ==
    \/ c \in Digit
    \/ c = "_"
    \/ \E i \in 1..Len(UpperCase) : c = UpperCase[i] \/ c = LowerCase[i]

\* The index of the last digit of the run of digits that starts at i
\* (i - 1 when s[i] is no digit).
RECURSIVE DigitsEnd(_, _)
DigitsEnd(s, i) ==
    IF i <= Len(s) /\ s[i] \in Digit THEN DigitsEnd(s, i + 1) ELSE i - 1

\* Where a marker that starts at i ends (0: no marker starts at i).
\* S<digits>E<digits>
EpisodeEnd(s, i) ==
    LET d1 == DigitsEnd(s, i + 1)
        d2 == DigitsEnd(s, d1 + 2)
    IN IF /\ s[i] \in {"S", "s"}
          /\ d1 >= i + 1
          /\ d1 + 1 <= Len(s)
          /\ s[d1 + 1] \in {"E", "e"}
          /\ d2 >= d1 + 2
       THEN d2 ELSE 0

\* S<digits>
SeasonEnd(s, i) ==
    IF s[i] \in {"S", "s"} /\ DigitsEnd(s, i + 1) >= i + 1
    THEN DigitsEnd(s, i + 1) ELSE 0

\* four digits that no "p" or "i" follows
YearEnd(s, i) ==
    IF /\ i + 3 <= Len(s)
       /\ \A k \in i..(i + 3) : s[k] \in Digit
       /\ (i + 4 > Len(s) \/ s[i + 4] \notin {"p", "i", "P", "I"})
    THEN i + 3 ELSE 0

\* Where a marker of a kind that starts at i ends (0: none starts at i).
MarkerEnd(kind, s, i) ==
    CASE kind = "episode" -> EpisodeEnd(s, i)
      [] kind = "season" -> SeasonEnd(s, i)
      [] kind = "year" -> YearEnd(s, i)

\* name.match(R) for a pattern R of the shape ^(title)(separator)(marker):
\* a tuple of length 0 for null, else the matched text name.match(R)[0],
\* which runs from the start of the name through the first marker.
MatchThroughMarker(s, separators, kind) ==
    LET starts == {i \in 3..Len(s) : s[i - 1] \in separators /\ MarkerEnd(kind, s, i) > 0}
    IN IF starts = {} THEN <<>>
       ELSE <<SubSeq(s, 1, MarkerEnd(kind, s, SetMin(starts)))>>

MatchEpisode(s) == MatchThroughMarker(s, {"_", ".", " ", "-"}, "episode")
MatchSeason(s) == MatchThroughMarker(s, {"_", ".", " ", "-"}, "season")
MatchMovie(s) == MatchThroughMarker(s, {"_", ".", " "}, "year")

\* name.match(GROUP_REGEX): the release-group tag, the text after the last
\* hyphen when it is word characters and spaces and not a number.
MatchGroup(s) ==
    LET hyphens ==
            {i \in 1..(Len(s) - 1) :
                /\ s[i] = "-"
                /\ \A k \in (i + 1)..Len(s) : IsWordChar(s[k]) \/ s[k] = " "
                /\ \E k \in (i + 1)..Len(s) : s[k] \notin Digit}
    IN IF hyphens = {} THEN <<>>
       ELSE <<SubSeq(s, SetMin(hyphens) + 1, Len(s))>>

\* `${base}%${group}`, where reading [0] of a null match throws a TypeError
\* (a tuple of length 0).
WithGroup(base, group) ==
    IF base = <<>> THEN <<>> ELSE <<base[1] \o <<"%">> \o group[1]>>

\* Lines 233-243.  A tuple of length 0: the expression throws a TypeError.
searchTerm(n) ==
    IF MatchEpisode(n) # <<>>
    THEN IF MatchGroup(n) # <<>>
         THEN WithGroup(MatchEpisode(n), MatchGroup(n))
         ELSE MatchEpisode(n)
    ELSE IF MatchSeason(n) # <<>>
    THEN IF MatchGroup(n) # <<>>
         THEN WithGroup(MatchSeason(n), MatchGroup(n))
         ELSE MatchSeason(n)
    ELSE IF MatchGroup(n) # <<>>
    THEN WithGroup(MatchMovie(n), MatchGroup(n))
    ELSE MatchMovie(n)

\* s LIKE p from position i of p and j of s: % is any text, _ any one
\* character, any other character itself whatever its case.
RECURSIVE LikeFrom(_, _, _, _)
LikeFrom(p, i, s, j) ==
    IF i > Len(p) THEN j > Len(s)
    ELSE IF p[i] = "%"
    THEN \E k \in j..(Len(s) + 1) : LikeFrom(p, i + 1, s, k)
    ELSE /\ j <= Len(s)
         /\ (p[i] = "_" \/ toLowerCase(p[i]) = toLowerCase(s[j]))
         /\ LikeFrom(p, i + 1, s, j + 1)

\* .where("name", "LIKE", searchTerm), lines 245-247
Like(s, p) == LikeFrom(p, 1, s, 1)

\* The orders in which the store may return a set of rows.
Orderings(S) ==
    {f \in [1..Cardinality(S) -> S] : \A x \in S : \E i \in 1..Cardinality(S) : f[i] = x}

\* searchMap[key] = x, line 252: a new key goes last, a known key keeps its
\* place and gets the new row.
Put(map, key, x) ==
    IF \E i \in 1..Len(map) : map[i].key = key
    THEN [i \in 1..Len(map) |->
            IF map[i].key = key THEN [key |-> key, row |-> x] ELSE map[i]]
    ELSE Append(map, [key |-> key, row |-> x])

\* lines 249-254
RECURSIVE BuildSearchMap(_, _)
BuildSearchMap(rows, map) ==
    IF rows = <<>> THEN map
    ELSE BuildSearchMap(
            Tail(rows),
            Put(map, candidateKeyOf[rows[1].name], rows[1]))

\* Object.keys(searchMap)
Keys(map) == [i \in 1..Len(map) |-> map[i].key]

\* searchMap[key]
Lookup(map, key) == map[CHOOSE i \in 1..Len(map) : map[i].key = key].row

\* Lines 261-264, in tenths: Math.max(levenshtein, Math.min(0.1 * length, 8))
distanceMax10(threshold, length) == Max2(10 * threshold, Min2(length, 80))

\* line 266: distanceMax >= calcDistanceFrom - 2
InLogWindow(max10, d) == max10 >= 10 * (d - 2)

\* Mutant of Accepts: the bound of the log window decides.
AcceptsInLogWindow(max10, d) == max10 >= 10 * (d - 2)

\* line 271: distanceMax >= calcDistanceFrom
Accepts(max10, d) == max10 >= 10 * d

MaxLevenshtein == 3
MaxIndexSize == 3

FuzzyInit ==
    /\ index \in {S \in SUBSET RecordPool : Cardinality(S) <= MaxIndexSize}
    /\ levenshtein \in 0..MaxLevenshtein
    /\ torrentDir = {}
    /\ FetchIdle /\ FuzzyIdle /\ CriteriaIdle /\ IndexerIdle

\* Lines 232-243: the call, up to the await of the query.
FuzzyCall ==
    /\ fpc = "idle"
    /\ \E n \in Names :
        /\ name' = <<n>>
        /\ IF searchTerm(n) = <<>>
           THEN fpc' = "done" /\ fresult' = "TypeError"
           ELSE fpc' = "query" /\ fresult' = fresult
    /\ UNCHANGED <<levenshtein, allTorrentNames, searchMap, closestMatch,
                   calcDistanceFrom, logged, parsed>>
    /\ UNCHANGED <<fetchVars, index, criteriaVars, indexerVars>>

\* Lines 245-260: the query resolves, up to the await of getFileConfig.
\* distance(searchTarget, undefined) reads undefined.length: a TypeError.
FuzzyQuery ==
    /\ fpc = "query"
    /\ \E rows \in Orderings({r \in index : Like(r.name, searchTerm(name[1])[1])}) :
        LET map == BuildSearchMap(rows, <<>>)
            searchTarget == comparableOf[name[1]]
            found == closest(searchTarget, Keys(map))
        IN /\ allTorrentNames' = <<rows>>
           /\ searchMap' = map
           /\ closestMatch' = found
           /\ IF found = <<>>
              THEN /\ fpc' = "done"
                   /\ fresult' = "TypeError"
                   /\ calcDistanceFrom' = calcDistanceFrom
              ELSE /\ fpc' = "config"
                   /\ fresult' = fresult
                   /\ calcDistanceFrom' = Distance(searchTarget, found[1])
    /\ UNCHANGED <<levenshtein, name, logged, parsed>>
    /\ UNCHANGED <<fetchVars, index, criteriaVars, indexerVars>>

\* Lines 261-275: the decision.  decodes: parseTorrentFromFilename resolves.
FuzzyDecide ==
    /\ fpc = "config"
    /\ LET max10 == distanceMax10(levenshtein, Len(comparableOf[name[1]]))
       IN /\ logged' = InLogWindow(max10, calcDistanceFrom)
          /\ IF InLogWindow(max10, calcDistanceFrom) /\ Accepts(max10, calcDistanceFrom)
             THEN /\ parsed' = <<Lookup(searchMap, closestMatch[1]).file_path>>
                  /\ \E decodes \in BOOLEAN :
                        fresult' = IF decodes THEN "Metafile" ELSE "DecodeError"
             ELSE /\ parsed' = parsed
                  /\ fresult' = "null"
    /\ fpc' = "done"
    /\ UNCHANGED <<levenshtein, name, allTorrentNames, searchMap, closestMatch,
                   calcDistanceFrom>>
    /\ UNCHANGED <<fetchVars, index, criteriaVars, indexerVars>>

FuzzyNext ==
    \/ FuzzyCall
    \/ FuzzyQuery
    \/ FuzzyDecide

SpecFuzzy == FuzzyInit /\ [][FuzzyNext]_vars

-----------------------------------------------------------------------------
(***************************************************************************)
(* getTorrentByCriteria                                                    *)
(***************************************************************************)

\* The rows of the index of this part: two names and two hashes in every
\* combination, each row with a file of its own.
CriteriaPool ==
    {[name |-> NameShow720, file_path |-> "/torrents/1.torrent", info_hash |-> "hashA"],
     [name |-> NameShow720, file_path |-> "/torrents/2.torrent", info_hash |-> "hashB"],
     [name |-> NameAbc, file_path |-> "/torrents/3.torrent", info_hash |-> "hashA"],
     [name |-> NameAbc, file_path |-> "/torrents/4.torrent", info_hash |-> "hashB"]}

\* The criteria a caller may pass: each field undefined (a tuple of length
\* 0), the empty string, a value some row has or a value no row has.
CriteriaValues ==
    [infoHash : {<<>>, <<"">>, <<"hashA">>, <<"hashB">>, <<"hashC">>},
     name : {<<>>, << <<>> >>, <<NameShow720>>, <<NameAbc>>, <<NameFilm>>}]

\* if (criteria.infoHash), line 284: the field is a non-empty string
HasInfoHash(c) == c.infoHash # <<>> /\ c.infoHash[1] # ""

\* if (criteria.name), line 287
HasName(c) == c.name # <<>> /\ c.name[1] # <<>>

\* Mutant of CriteriaMatches: a row matching either field is enough.
CriteriaMatchesEither(row, c) ==
    \/ HasInfoHash(c) /\ row.info_hash = c.infoHash[1]
    \/ HasName(c) /\ row.name = c.name[1]

\* The where clause of lines 282-291: one condition per field that is set.
CriteriaMatches(row, c) ==
    /\ HasInfoHash(c) => row.info_hash = c.infoHash[1]
    /\ HasName(c) => row.name = c.name[1]

CriteriaInit ==
    /\ index \in SUBSET CriteriaPool
    /\ levenshtein = 0
    /\ torrentDir = {}
    /\ FetchIdle /\ FuzzyIdle /\ CriteriaIdle /\ IndexerIdle

\* the call, up to the await of line 281
CriteriaCall ==
    /\ cpc = "idle"
    /\ \E c \in CriteriaValues : criteria' = c
    /\ cpc' = "find"
    /\ UNCHANGED <<findResult, cresult>>
    /\ UNCHANGED <<fetchVars, index, fuzzyVars, indexerVars>>

\* Lines 281-300: .first() resolves with one of the matching rows, or with
\* undefined, and then the function throws the Error of line 298.
CriteriaFind ==
    /\ cpc = "find"
    /\ IF \E r \in index : CriteriaMatches(r, criteria)
       THEN /\ \E r \in index :
                /\ CriteriaMatches(r, criteria)
                /\ findResult' = <<r>>
            /\ cpc' = "parse"
            /\ cresult' = cresult
       ELSE /\ findResult' = <<>>
            /\ cpc' = "done"
            /\ cresult' = "NotFound"
    /\ UNCHANGED criteria
    /\ UNCHANGED <<fetchVars, index, fuzzyVars, indexerVars>>

\* line 300: parseTorrentFromFilename(findResult.file_path) settles
CriteriaParse ==
    /\ cpc = "parse"
    /\ \E decodes \in BOOLEAN :
        cresult' = IF decodes THEN "Metafile" ELSE "DecodeError"
    /\ cpc' = "done"
    /\ UNCHANGED <<criteria, findResult>>
    /\ UNCHANGED <<fetchVars, index, fuzzyVars, indexerVars>>

CriteriaNext ==
    \/ CriteriaCall
    \/ CriteriaFind
    \/ CriteriaParse

SpecCriteria == CriteriaInit /\ [][CriteriaNext]_vars

-----------------------------------------------------------------------------
(***************************************************************************)
(* findAllTorrentFilesInDir and indexNewTorrents                           *)
(***************************************************************************)

\* "a.torrent"
FileA == <<"a", ".", "t", "o", "r", "r", "e", "n", "t">>

\* "b.torrent"
FileB == <<"b", ".", "t", "o", "r", "r", "e", "n", "t">>

\* "c.torrent"
FileC == <<"c", ".", "t", "o", "r", "r", "e", "n", "t">>

\* "notes.txt"
FileNotes == <<"n", "o", "t", "e", "s", ".", "t", "x", "t">>

\* ".torrent"
FileDot == <<".", "t", "o", "r", "r", "e", "n", "t">>

FilePool == {FileA, FileB, FileC, FileNotes, FileDot}

\* path.extname: from the last "." of the name to its end; nothing when the
\* name has no "." or only the one it starts with.
extname(fn) ==
    LET dots == {i \in 1..Len(fn) : fn[i] = "."}
        last == CHOOSE i \in dots : \A k \in dots : k <= i
    IN IF dots = {} \/ last = 1 THEN <<>> ELSE SubSeq(fn, last, Len(fn))

DotTorrent == <<".", "t", "o", "r", "r", "e", "n", "t">>

\* path.resolve(path.join(torrentDir, fn)), the directory being "/t"
Resolve(fn) == <<"/", "t", "/">> \o fn

\* Lines 132-135: the names with the extension .torrent, sorted, resolved.
findAllTorrentFilesInDir(dir) ==
    LET torrents == {fn \in dir : extname(fn) = DotTorrent}
        anyOrder == CHOOSE f \in Orderings(torrents) : TRUE
        sorted == Sort(anyOrder)
    IN [i \in 1..Len(sorted) |-> Resolve(sorted[i])]

\* Metafile.decode of the contents of a file of the pool: b.torrent does not
\* decode (a tuple of length 0), the others hold a name and an info hash.
Decode(fn) ==
    CASE fn = FileA -> <<[name |-> NameShow720, infoHash |-> "hashA"]>>
      [] fn = FileC -> <<[name |-> NameAbc, infoHash |-> "hashB"]>>
      [] fn = FileDot -> <<[name |-> NameFilm, infoHash |-> "hashC"]>>
      [] OTHER -> <<>>

\* The rows the index may hold when a run starts: for a.torrent the row of
\* its contents or of older contents, for b.torrent a row of older contents,
\* for c.torrent its row, and a row of a file that is in no directory.
IndexedPool ==
    {[name |-> NameShow720, file_path |-> Resolve(FileA), info_hash |-> "hashA"],
     [name |-> NameSeason, file_path |-> Resolve(FileA), info_hash |-> "hashD"],
     [name |-> NameFilm, file_path |-> Resolve(FileB), info_hash |-> "hashE"],
     [name |-> NameAbc, file_path |-> Resolve(FileC), info_hash |-> "hashB"],
     [name |-> NameFilm, file_path |-> Resolve(<<"g", ".", "t", "o", "r", "r", "e", "n", "t">>),
      info_hash |-> "hashF"]}

\* file_path is unique in the table
UniquePaths(rows) == \A r1, r2 \in rows : r1.file_path = r2.file_path => r1 = r2

Range(s) == {s[i] : i \in 1..Len(s)}

\* Mutant of RowsKept: the clean-up deletes nothing.
RowsKeptAll(rows, contents) == rows

\* line 172: the rows that whereNotIn("file_path", dirContents).del() leaves
RowsKept(rows, contents) == {r \in rows : r.file_path \in Range(contents)}

MaxDirChanges == 1

IndexerInit ==
    /\ torrentDir \in SUBSET FilePool
    /\ index \in {S \in SUBSET IndexedPool : UniquePaths(S)}
    /\ levenshtein = 0
    /\ FetchIdle /\ FuzzyIdle /\ CriteriaIdle /\ IndexerIdle

\* lines 139-140
IndexStart ==
    /\ ipc = "idle"
    /\ dirContents' = findAllTorrentFilesInDir(torrentDir)
    /\ pos' = 1
    /\ indexBefore' = index
    /\ dirChanges' = 0
    /\ ipc' = "loop"
    /\ UNCHANGED <<torrentDir, index>>
    /\ UNCHANGED <<fetchVars, fuzzyVars, criteriaVars>>

\* Lines 143-169, one turn of the loop.  The file is read now: it decodes
\* when it is still in the directory and its contents decode.
IndexFile ==
    /\ ipc = "loop"
    /\ pos <= Len(dirContents)
    /\ LET filepath == dirContents[pos]
           doesAlreadyExist == \E r \in index : r.file_path = filepath
           here == {fn \in torrentDir : Resolve(fn) = filepath}
           meta == IF here = {} THEN <<>> ELSE Decode(CHOOSE fn \in here : TRUE)
       IN IF ~doesAlreadyExist /\ meta # <<>>
          THEN index' = index \cup
                    {[name |-> meta[1].name, file_path |-> filepath,
                      info_hash |-> meta[1].infoHash]}
          ELSE index' = index
    /\ pos' = pos + 1
    /\ UNCHANGED <<torrentDir, ipc, dirContents, indexBefore, dirChanges>>
    /\ UNCHANGED <<fetchVars, fuzzyVars, criteriaVars>>

\* line 172, and the run ends
IndexCleanUp ==
    /\ ipc = "loop"
    /\ pos > Len(dirContents)
    /\ index' = RowsKept(index, dirContents)
    /\ ipc' = "done"
    /\ UNCHANGED <<torrentDir, dirContents, pos, indexBefore, dirChanges>>
    /\ UNCHANGED <<fetchVars, fuzzyVars, criteriaVars>>

\* Something else adds a file to the directory during or after the run.
DirAdd ==
    /\ ipc # "idle"
    /\ dirChanges < MaxDirChanges
    /\ \E fn \in FilePool \ torrentDir : torrentDir' = torrentDir \cup {fn}
    /\ dirChanges' = dirChanges + 1
    /\ UNCHANGED <<index, ipc, dirContents, pos, indexBefore>>
    /\ UNCHANGED <<fetchVars, fuzzyVars, criteriaVars>>

\* Something else removes a file from the directory during or after the run.
DirRemove ==
    /\ ipc # "idle"
    /\ dirChanges < MaxDirChanges
    /\ \E fn \in torrentDir : torrentDir' = torrentDir \ {fn}
    /\ dirChanges' = dirChanges + 1
    /\ UNCHANGED <<index, ipc, dirContents, pos, indexBefore>>
    /\ UNCHANGED <<fetchVars, fuzzyVars, criteriaVars>>

IndexerNext ==
    \/ IndexStart
    \/ IndexFile
    \/ IndexCleanUp
    \/ DirAdd
    \/ DirRemove

SpecIndexer == IndexerInit /\ [][IndexerNext]_vars

-----------------------------------------------------------------------------
(***************************************************************************)
(* Properties of parseTorrentFromURL                                       *)
(***************************************************************************)

\* C1: parseTorrentFromURL never ends by throwing: a call that has ended has
\* returned a Result holding a Metafile or one of the five SnatchError kinds.
C1_NeverThrows ==
    pc = "done" => outcome \in SnatchError \cup {"Metafile"}

\* C2: when the cancellation timer fires while the call has not settled
\* (waiting for the response or reading its body), the outcome is ABORTED.
C2_TimerInFlightGivesAborted ==
    (pc = "done" /\ firedAt \in {"fetching"} \cup BodyStates) => outcome = "ABORTED"

\* C3: once a call has settled with an outcome other than ABORTED its timer is
\* disarmed, and no timer fires after its call has returned.
C3_TimerDisarmedOnceSettled ==
    /\ (pc = "done" /\ outcome # "ABORTED") => timer # "armed"
    /\ firedAt # "done"

\* The outcome the rules of C4 give a response, first applicable rule first.
\* read: the body text or bytes were obtained.
RuleOutcome(r, read) ==
    IF r.status \in 300..399 /\ r.location = <<LocationMagnet>>
    THEN "MAGNET_LINK"
    ELSE IF r.status = 429 THEN "RATE_LIMITED"
    ELSE IF r.status \notin 200..299 THEN "UNKNOWN_ERROR"
    ELSE IF r.contentType = <<"application/rss+xml">>
    THEN IF read /\ r.has429 THEN "RATE_LIMITED" ELSE "INVALID_CONTENTS"
    ELSE IF read /\ r.decodes THEN "Metafile" ELSE "INVALID_CONTENTS"

\* C4: for every response the call receives, and whose handling no timer
\* cuts short, the outcome is that of the first applicable rule: magnet
\* redirect, 429, other non-2xx, RSS content type, decode.
C4_FirstApplicableRule ==
    (pc = "done" /\ response # <<>> /\ firedAt \notin BodyStates)
        => outcome = RuleOutcome(response[1], bodyRead = "ok")

-----------------------------------------------------------------------------
(***************************************************************************)
(* Properties of getTorrentByFuzzyName                                     *)
(***************************************************************************)

\* The call has ended and its query had returned the rows allTorrentNames[1].
FuzzyEndedAfterQuery == fpc = "done" /\ allTorrentNames # <<>>

\* C5: when the pattern query returns no records the call ends with null
\* (NoMatch): it decodes no file and does not fail.
C5_EmptyCandidatesGiveNoMatch ==
    (FuzzyEndedAfterQuery /\ allTorrentNames[1] = <<>>)
        => (fresult = "null" /\ parsed = <<>>)

\* The least distance from the target key to a candidate key, and the ceiling
\* max(T, min(0.1 * L, 8)) in tenths.
LeastDistance ==
    SetMin({Distance(comparableOf[name[1]], searchMap[i].key) : i \in 1..Len(searchMap)})
Ceiling10 ==
    LET L == Len(comparableOf[name[1]])
        lengthPart == IF L <= 80 THEN L ELSE 80
    IN IF 10 * levenshtein >= lengthPart THEN 10 * levenshtein ELSE lengthPart

\* The files of the retrieved records whose candidate key is nearest.
NearestFiles ==
    {searchMap[i].row.file_path :
        i \in {k \in 1..Len(searchMap) :
                Distance(comparableOf[name[1]], searchMap[k].key) = LeastDistance}}

\* C6: with a non-empty candidate set the match is accepted, the nearest
\* record's file being decoded, exactly when d <= max(T, min(0.1 * L, 8));
\* a distance above the ceiling is rejected with null, and is logged when it
\* is at most ceiling + 2.
C6_AcceptedIffWithinCeiling ==
    (FuzzyEndedAfterQuery /\ allTorrentNames[1] # <<>>) =>
        /\ 10 * LeastDistance <= Ceiling10 =>
              /\ parsed # <<>>
              /\ parsed[1] \in NearestFiles
              /\ fresult \in {"Metafile", "DecodeError"}
        /\ 10 * LeastDistance > Ceiling10 =>
              /\ parsed = <<>>
              /\ fresult = "null"
              /\ (10 * LeastDistance <= Ceiling10 + 20 => logged)

\* C6, the cap of 8: a key of 93 characters has the ceiling 8 and not 9.3, so
\* a nearest candidate at distance 9 is rejected, and logged.
C6_RejectedAboveCap ==
    /\ FuzzyEndedAfterQuery
    /\ allTorrentNames[1] # <<>>
    /\ Len(comparableOf[name[1]]) > 80
    /\ levenshtein = 0
    /\ LeastDistance = 9
    /\ fresult = "null"
    /\ logged

\* C6, witness: a match at a distance of exactly the ceiling, the ceiling
\* being 0.1 * L, is accepted.
C6_AcceptedAtLengthCeiling ==
    /\ FuzzyEndedAfterQuery /\ allTorrentNames[1] # <<>>
    /\ LeastDistance >= 1
    /\ 10 * LeastDistance = Ceiling10
    /\ levenshtein < LeastDistance
    /\ fresult = "Metafile"

\* C8: for a name whose target key has length 0 the call ends with null.
C8_EmptyKeyGivesNoMatch ==
    (fpc = "done" /\ Len(comparableOf[name[1]]) = 0) => fresult = "null"

\* C9: the candidate key of a retrieved record whose name ends with a known
\* extension is the canonical key of the name without that extension.
C9_CandidateKeyStripsExtension ==
    allTorrentNames # <<>> =>
        \A i \in 1..Len(allTorrentNames[1]) : \A extension \in extensionsToRemove :
            EndsWith(allTorrentNames[1][i].name, extension) =>
                \E k \in 1..Len(searchMap) :
                    /\ searchMap[k].key =
                        createComparableTorrent(
                            SubSeq(allTorrentNames[1][i].name, 1,
                                   Len(allTorrentNames[1][i].name) - Len(extension)))
                    /\ searchMap[k].row.name = allTorrentNames[1][i].name

-----------------------------------------------------------------------------
(***************************************************************************)
(* Properties of getTorrentByCriteria and indexNewTorrents                 *)
(***************************************************************************)

\* A row satisfies every criterion that is set.
SatisfiesAllSet(row) ==
    /\ HasInfoHash(criteria) => row.info_hash = criteria.infoHash[1]
    /\ HasName(criteria) => row.name = criteria.name[1]

\* C7: called with at least one of infoHash and name set, getTorrentByCriteria
\* fails with NotFound exactly when no row of the index satisfies every
\* criterion that is set; otherwise the row whose file it decodes is a row of
\* the index satisfying every criterion that is set.
C7_NotFoundIffNoRowSatisfiesAll ==
    (cpc = "done" /\ (HasInfoHash(criteria) \/ HasName(criteria))) =>
        /\ cresult = "NotFound" <=> ~(\E r \in index : SatisfiesAllSet(r))
        /\ cresult # "NotFound" =>
              /\ findResult # <<>>
              /\ findResult[1] \in index
              /\ SatisfiesAllSet(findResult[1])

\* C7, witness: both criteria set, a row found, while the index also holds a
\* row with the hash alone and a row with the name alone.
C7_BothSetAndFound ==
    /\ cpc = "done" /\ HasInfoHash(criteria) /\ HasName(criteria)
    /\ cresult = "Metafile"
    /\ \E r \in index : r.info_hash = criteria.infoHash[1] /\ r.name # criteria.name[1]
    /\ \E r \in index : r.info_hash # criteria.infoHash[1] /\ r.name = criteria.name[1]

\* The .torrent files of the directory, by their paths.
TorrentPaths == {Resolve(fn) : fn \in {f \in torrentDir : extname(f) = DotTorrent}}

\* C10: after a run of indexNewTorrents during which the directory did not
\* change, every file_path of the index is a .torrent file of the directory,
\* every .torrent file of the directory that decodes is in the index, no
\* file_path is in two rows, and the rows the index held before the run for
\* files still in the directory are unchanged.
C10_IndexMatchesDirectory ==
    (ipc = "done" /\ dirChanges = 0) =>
        /\ \A r \in index : r.file_path \in TorrentPaths
        /\ \A fn \in torrentDir :
              (extname(fn) = DotTorrent /\ Decode(fn) # <<>>)
                  => \E r \in index : r.file_path = Resolve(fn)
        /\ UniquePaths(index)
        /\ \A r \in indexBefore : r.file_path \in TorrentPaths => r \in index

\* C10, witness: a run that added a row, deleted a row and kept a row.
C10_RunAddedDeletedKept ==
    /\ ipc = "done" /\ dirChanges = 0
    /\ index \ indexBefore # {}
    /\ indexBefore \ index # {}
    /\ index \cap indexBefore # {}

=============================================================================
